---------------------------- MODULE Spec2Model ----------------------------
(***************************************************************************)
(* State-machine model of uabxautomate's `extract` subcommand (src/main.rs) *)
(* A behaviour is a sequence of `extract` runs of one configuration over    *)
(* one set of glob results.  The file system (progress file, output files,  *)
(* directories) persists between runs; everything else is process state.    *)
(*                                                                          *)
(* Strings are sequences of tokens: a path is <<"in", "\\", "a.bundle">>,   *)
(* the progress file is the flat token sequence written to it, with "\n"    *)
(* for a line feed.                                                         *)
(***************************************************************************)
EXTENDS Naturals, Sequences, FiniteSets, TLC

\* ------------------------------------------------------------------ bounds
NumBundles == 2     \* paths the source glob yields
MaxRuns == 2        \* extract runs in one behaviour
MaxSignals == 1     \* Ctrl-C messages that can wait in the channel

\* ------------------------------------------------------------- the inputs
Slash == "/"
Backslash == "\\"
Newline == "\n"

Bundles == 1..NumBundles

BundleNames == <<"a.bundle", "b.bundle", "c.bundle", "d.bundle">>

\* The PathBuf the glob iterator yields for the b-th match (Windows style).
BundlePath(b) == <<"in", Backslash, BundleNames[b]>>

\* env.objects() of a bundle that loads, in native order.
BundleObjects ==
    << [class |-> "AssetBundle", name |-> <<>>,         path_id |-> 1],
       [class |-> "TextAsset",   name |-> <<"readme">>, path_id |-> 2],
       [class |-> "Sprite",      name |-> <<"icon">>,   path_id |-> 3] >>

\* The AssetBundle object's m_Container and m_PreloadTable.
Manifest ==
    [ container     |-> << [name |-> <<"docs">>, preload_index |-> 0, preload_size |-> 1] >>,
      preload_table |-> << 2, 3 >> ]

\* Config.dest and Config.targets.  A template is a sequence of literal tokens
\* and {placeholders}; `match` is the regex ^<prefix>(.+)$, given by its
\* literal prefix; `dest` is a replacement string, "$1" the capture group.
ConfigDest == <<"out">>

Ph(key) == [key |-> key]

Lit(tok) == [lit |-> tok]

ConfigTargets ==
    << [type     |-> "TextAsset",                      \* out/docs/readme.txt
        template |-> <<Ph("container"), Lit(Slash), Ph("name"), Lit(".txt")>>,
        match    |-> <<>>,
        dest     |-> <<"$1">>],
       [type     |-> "TextAsset",                      \* matches nothing in "docs"
        template |-> <<Ph("container"), Lit(Slash), Ph("name")>>,
        match    |-> <<"art", Slash>>,
        dest     |-> <<"$1">>],
       [type     |-> "Sprite",                         \* "/": a path with no parent
        template |-> <<Ph("name")>>,
        match    |-> <<>>,
        dest     |-> <<Slash>>] >>

\* preload_index and preload_size are u64.  The model's words are narrower:
\* Modulus stands for 2^64.
Modulus == 8

\* a + b of two u64 without overflow checks (release profile)
WrappingAdd(a, b) == (a + b) % Modulus

\* a + b of two u64 panics with overflow checks (debug profile)
Overflows(a, b) == a + b >= Modulus

\* The inner loop of collect_asset_bundle_info: for i in
\* preload_index..preload_index + preload_size, preload_table.get(i) is
\* inserted under its path_id, or the index is logged and skipped.
\* ------------------------------------------ the archives of ArcSpec
\* The archives the single-archive specification (ArcSpec) draws from: item
\* lists with unsupported and undecodable items in different places and with
\* names that hold path separators and "..", and manifests whose containers
\* claim ranges inside, across and beyond the preload table.
Obj(class, name, path_id, readable) ==
    [class |-> class, name |-> name, path_id |-> path_id, readable |-> readable]

ArcObjectLists ==
    { << Obj("AssetBundle", <<>>, 1, TRUE),
         Obj("TextAsset", <<"readme">>, 2, TRUE),
         Obj("Sprite", <<"icon">>, 3, TRUE) >>,
      << Obj("Sprite", <<"icon">>, 3, FALSE),
         Obj("AssetBundle", <<>>, 1, TRUE),
         Obj("TextAsset", <<"..", "/", "..", "/", "x">>, 2, TRUE) >>,
      << Obj("TextAsset", <<"readme">>, 2, TRUE),
         Obj("AssetBundle", <<>>, 1, TRUE),
         Obj("TextAsset", <<"notes">>, 4, TRUE) >> }

PreloadIndices == {0, 1, 2, Modulus - 1}

PreloadSizes == {0, 1, 2, Modulus - 1}

Container(name, preload_index, preload_size) ==
    [name |-> name, preload_index |-> preload_index, preload_size |-> preload_size]

\* m_Container: "c1" with any of the ranges, alone or next to a "c2".
ArcContainers ==
    { {Container(<<"c1">>, i, n)} \cup second :
          i \in PreloadIndices, n \in PreloadSizes,
          second \in { {}, {Container(<<"c2">>, 0, 2)}, {Container(<<"c2">>, 1, 2)},
                       {Container(<<"c2">>, 2, 1)} } }

\* m_PreloadTable, as the path_ids it holds.
ArcTables == { <<2, 3, 4>>, <<3, 2>> }

Archives ==
    [objects : ArcObjectLists, container : ArcContainers, preload_table : ArcTables]

\* The rules of the single-archive specification.
ArcTargets ==
    << [type     |-> "TextAsset",                      \* <container>/<name>
        template |-> <<Ph("container"), Lit(Slash), Ph("name")>>,
        match    |-> <<>>,
        dest     |-> <<"$1">>],
       [type     |-> "Sprite",                         \* sprites/<name>
        template |-> <<Ph("name")>>,
        match    |-> <<>>,
        dest     |-> <<"sprites", Slash, "$1">>],
       [type     |-> "TextAsset",                      \* only items of container c1
        template |-> <<Ph("container"), Lit(Slash), Ph("name")>>,
        match    |-> <<"c1", Slash>>,
        dest     |-> <<"first", Slash, "$1">>],
       [type     |-> "TextAsset",                      \* by-index/<index>
        template |-> <<Lit("#"), Ph("index")>>,
        match    |-> <<"#">>,
        dest     |-> <<"by-index", Slash, "$1">>] >>

\* ------------------------------------------------------------ pure helpers
Range(s) == {s[i] : i \in DOMAIN s}

RECURSIVE Concat(_)
Concat(ss) == IF ss = <<>> THEN <<>> ELSE Head(ss) \o Concat(Tail(ss))

\* str::replace('\\', "/")
Normalize(p) == [i \in DOMAIN p |-> IF p[i] = Backslash THEN Slash ELSE p[i]]

\* bundle_path.to_str().unwrap_or_default().replace('\\', "/")
StrBundlePath(b) == Normalize(BundlePath(b))

\* str::lines(): the text is cut at every line feed; a last line without a
\* line feed is a line too, an empty rest is not.
RECURSIVE SplitLines(_, _)
SplitLines(text, cur) ==
    IF text = <<>> THEN (IF cur = <<>> THEN <<>> ELSE <<cur>>)
    ELSE IF Head(text) = Newline THEN <<cur>> \o SplitLines(Tail(text), <<>>)
    ELSE SplitLines(Tail(text), Append(cur, Head(text)))

Lines(text) == SplitLines(text, <<>>)

\* read_to_string(..).unwrap_or_default().lines().collect::<HashSet<_>>()
LineSet(text) == Range(Lines(text))

\* ------------------------------------------------- container index builder
RECURSIVE CollectRange(_, _, _, _, _)
CollectRange(map, table, name, i, end) ==
    IF i >= end THEN map
    ELSE IF i + 1 \in DOMAIN table
         THEN CollectRange((table[i + 1] :> name) @@ map, table, name, i + 1, end)
         ELSE CollectRange(map, table, name, i + 1, end)

\* The outer loop over asset_bundle.container, in the order given.
RECURSIVE CollectContainers(_, _, _)
CollectContainers(map, containers, table) ==
    IF containers = <<>> THEN map
    ELSE LET c == Head(containers)
         IN  CollectContainers(
                 CollectRange(map, table, c.name, c.preload_index,
                              WrappingAdd(c.preload_index, c.preload_size)),
                 Tail(containers), table)

\* The orders in which iterating a HashMap can yield its entries.
Orders(entries) ==
    {f \in [1..Cardinality(entries) -> entries] :
        \A i, j \in DOMAIN f : f[i] = f[j] => i = j}

\* The indices eprintln!("Failed to get preload_table[{}]") reports.
LoggedIndices(containers, table) ==
    UNION {{i \in 0..(Modulus - 1) :
               /\ containers[n].preload_index <= i
               /\ i < WrappingAdd(containers[n].preload_index, containers[n].preload_size)
               /\ i + 1 \notin DOMAIN table} : n \in DOMAIN containers}

\* collect_asset_bundle_info for a bundle whose manifest decodes.
CollectAssetBundleInfo == CollectContainers(<<>>, Manifest.container, Manifest.preload_table)

\* container_name_map.get(&path_id).cloned().unwrap_or_default()
ContainerOf(map, path_id) == IF path_id \in DOMAIN map THEN map[path_id] ELSE <<>>

\* ------------------------------------------------------------ item classifier
SupportedClasses == {"Sprite", "Texture2D", "TextAsset"}

\* --------------------------------------------------------- path rule engine
Digits == <<"0", "1", "2", "3", "4", "5", "6", "7", "8", "9">>

\* index.to_string(), for the indices the model reaches
IndexToString(n) == <<Digits[n + 1]>>

\* placeholder_map of the k-th object (index k - 1) of bundle b
PlaceholderMap(b, k, map) ==
    [ name        |-> BundleObjects[k].name,
      container   |-> ContainerOf(map, BundleObjects[k].path_id),
      index       |-> IndexToString(k - 1),
      bundle_path |-> StrBundlePath(b) ]

\* placeholder_map of object obj, the k-th (index k - 1) of the enumeration
PlaceholdersOf(obj, k, map, bundle_path) ==
    [ name        |-> obj.name,
      container   |-> ContainerOf(map, obj.path_id),
      index       |-> IndexToString(k - 1),
      bundle_path |-> bundle_path ]

\* Template::render_nofail: a placeholder with a value is replaced by it, one
\* without stays as written.
Render(template, values) ==
    Concat([i \in DOMAIN template |->
              IF "lit" \in DOMAIN template[i] THEN <<template[i].lit>>
              ELSE IF template[i].key \in DOMAIN values THEN values[template[i].key]
              ELSE <<"{", template[i].key, "}">>])

\* Regex::is_match for ^<prefix>(.+)$
IsMatch(prefix, s) ==
    /\ Len(s) > Len(prefix)
    /\ SubSeq(s, 1, Len(prefix)) = prefix

\* Regex::replace for ^<prefix>(.+)$: the whole string is the match, so the
\* result is the replacement with $1 expanded.
Replace(prefix, s, dest) ==
    Concat([i \in DOMAIN dest |->
              IF dest[i] = "$1" THEN SubSeq(s, Len(prefix) + 1, Len(s))
              ELSE <<dest[i]>>])

\* Path::join: an absolute right-hand side replaces the left-hand side.
PathJoin(base, rel) ==
    IF rel # <<>> /\ Head(rel) = Slash THEN rel
    ELSE IF base = <<>> THEN rel
    ELSE IF base[Len(base)] = Slash THEN base \o rel
    ELSE base \o <<Slash>> \o rel

Rendered(b, k, t, map) == Render(ConfigTargets[t].template, PlaceholderMap(b, k, map))

\* The path printed and written for object k of bundle b under target t.
OutPath(b, k, t, map) ==
    PathJoin(ConfigDest,
             Replace(ConfigTargets[t].match, Rendered(b, k, t, map), ConfigTargets[t].dest))

RECURSIVE StripTrailing(_)
StripTrailing(p) ==
    IF Len(p) > 1 /\ p[Len(p)] = Slash THEN StripTrailing(SubSeq(p, 1, Len(p) - 1)) ELSE p

LastSlash(p) ==
    LET at == {i \in DOMAIN p : p[i] = Slash}
    IN  IF at = {} THEN 0 ELSE CHOOSE i \in at : \A j \in at : j <= i

\* Path::parent is None for the empty path and for the root.
HasParent(path) == StripTrailing(path) \notin {<<>>, <<Slash>>}

Parent(path) ==
    LET p == StripTrailing(path)
        j == LastSlash(p)
    IN  IF j = 0 THEN <<>> ELSE IF j = 1 THEN <<Slash>> ELSE SubSeq(p, 1, j - 1)

\* The directories create_dir_all(dir) makes sure exist: dir and its ancestors.
Ancestors(dir) ==
    {SubSeq(dir, 1, i) : i \in {j \in DOMAIN dir :
                                  /\ dir[j] # Slash
                                  /\ (j = Len(dir) \/ dir[j + 1] = Slash)}}

\* ------------------------------------------------------------------- state
VARIABLES
    progressExists,     \* <config-stem>_progress.txt exists
    progressFile,       \* its content
    fsFiles,            \* output files on the file system
    fsDirs,             \* directories on the file system
    runNo,              \* runs started so far
    pc,                 \* where the running process is; "Idle": none runs
    exit,               \* how the last finished run ended
    dry_run,
    incremental,        \* incremental_progress_file is Some
    processed_files,
    signals,            \* messages waiting in the ctrlc channel
    bundleIdx,          \* position of the glob iterator
    container_name_map,
    objIdx,             \* position of env.objects().enumerate(), index + 1
    targetIdx,          \* position in targets_instantiated
    \* history of the running process, read by the properties only
    phase,              \* per bundle: the archive state machine of the spec
    \* .. of the archive the loop body was last entered for
    printed,            \* <<b, k, t>> whose output path was printed
    attempted,          \* <<b, k, t>> for which dump_asset was called
    errlog,             \* what eprintln! reported: <<what, b, k, t>>
    \* .. of the whole run
    atStart,            \* the file system when the run started
    recAfterStop,       \* progress appends begun while a stop request waited
    \* history across runs
    everLooped,         \* bundles whose item loop has run to its end
    lastFull,           \* the last finished run was incremental, not dry, and ended "done"
    \* one archive, walked by `extract --dry` and then by `inspect` (ArcSpec)
    arc,                \* the archive: objects, m_Container, m_PreloadTable
    checked,            \* the binary was built with overflow checks
    apc,                \* where the walk is; "Off": no walk
    panics,             \* the arms ("extract", "inspect") whose process panicked
    logged,             \* preload_table indices extract's index build reported
    paths,              \* what extract printed: [k, t, index, path], in order
    only_supported,
    inspect_map,        \* container_name_map of the Inspect arm
    report              \* what inspect printed: [k, index, container], in order

fsVars == <<progressExists, progressFile, fsFiles, fsDirs>>
procVars == <<dry_run, incremental, processed_files, signals, bundleIdx,
              container_name_map, objIdx, targetIdx>>
runHist == <<phase, printed, attempted, errlog, atStart, recAfterStop>>
arcVars == <<arc, checked, apc, panics, logged, paths, only_supported, inspect_map, report>>
vars == <<fsVars, runNo, pc, exit, procVars, runHist, everLooped, lastFull, arcVars>>

Running == pc # "Idle"

\* The positions at which the Ctrl-C handler is installed.
HandlerInstalled ==
    pc \notin {"Idle", "LoadProgress", "Chdir", "CompileTargets", "InstallHandler"}

DriverInit ==
    /\ progressExists = FALSE
    /\ progressFile = <<>>
    /\ fsFiles = {}
    /\ fsDirs = {}
    /\ runNo = 0
    /\ pc = "Idle"
    /\ exit = "none"
    /\ dry_run = FALSE
    /\ incremental = FALSE
    /\ processed_files = {}
    /\ signals = 0
    /\ bundleIdx = 1
    /\ container_name_map = <<>>
    /\ objIdx = 1
    /\ targetIdx = 1
    /\ phase = [b \in Bundles |-> "Pending"]
    /\ printed = {}
    /\ attempted = {}
    /\ errlog = {}
    /\ atStart = [exists |-> FALSE, content |-> <<>>, files |-> {}, dirs |-> {}]
    /\ recAfterStop = 0
    /\ everLooped = {}
    /\ lastFull = FALSE

\* No single-archive walk takes place.
ArcOff ==
    /\ arc = [objects |-> <<>>, container |-> {}, preload_table |-> <<>>]
    /\ checked = FALSE
    /\ apc = "Off"
    /\ panics = {}
    /\ logged = {}
    /\ paths = <<>>
    /\ only_supported = FALSE
    /\ inspect_map = <<>>
    /\ report = <<>>

Init == DriverInit /\ ArcOff

\* The process is gone: its memory, and the history kept of it, are reset.
\* No step that ends the process changes the file system.
EndRun(how) ==
    /\ pc' = "Idle"
    /\ exit' = how
    /\ lastFull' = (incremental /\ ~dry_run /\ how = "done")
    /\ dry_run' = FALSE
    /\ incremental' = FALSE
    /\ processed_files' = {}
    /\ signals' = 0
    /\ bundleIdx' = 1
    /\ container_name_map' = <<>>
    /\ objIdx' = 1
    /\ targetIdx' = 1
    /\ phase' = [b \in Bundles |-> "Pending"]
    /\ printed' = {}
    /\ attempted' = {}
    /\ errlog' = {}
    /\ atStart' = [exists |-> progressExists, content |-> progressFile,
                   files |-> fsFiles, dirs |-> fsDirs]
    /\ recAfterStop' = 0
    /\ UNCHANGED <<fsVars, runNo, everLooped, arcVars>>

\* The process goes on to position `to`.
Goto(to) ==
    /\ pc' = to
    /\ UNCHANGED <<runNo, exit, lastFull, arcVars>>

\* `continue` / the end of the per-archive loop body: on to the next path.
NextBundle(ph) ==
    /\ phase' = [phase EXCEPT ![bundleIdx] = ph]
    /\ bundleIdx' = bundleIdx + 1
    /\ Goto("LoopTop")

\* Variant: a load failure is reported, but the archive goes on to the
\* progress append instead of `continue`.
FailBundle_Recorded(what) ==
    /\ errlog' = errlog \cup {<<what, bundleIdx, 0, 0>>}
    /\ phase' = [phase EXCEPT ![bundleIdx] = "Failed"]
    /\ bundleIdx' = bundleIdx
    /\ Goto("WritePath")

\* eprintln!("Failed to ..") and `continue`: the archive is given up.
FailBundle(what) ==
    /\ errlog' = errlog \cup {<<what, bundleIdx, 0, 0>>}
    /\ NextBundle("Failed")

\* ----------------------------------------------------------------- actions
\* main, Extract: Args::parse_from and the configuration file.  An unreadable
\* or unparsable file is reported and the run returns Ok(()).
ReadConfig ==
    /\ pc = "Idle"
    /\ runNo < MaxRuns
    /\ runNo' = runNo + 1
    /\ \/ /\ \E d \in BOOLEAN, i \in BOOLEAN :
                /\ dry_run' = d
                /\ incremental' = i
          /\ pc' = "LoadProgress"
          /\ exit' = "running"
          /\ UNCHANGED lastFull
       \/ /\ pc' = "Idle"
          /\ exit' = "config"
          /\ lastFull' = FALSE
          /\ UNCHANGED <<dry_run, incremental>>
    /\ UNCHANGED <<fsVars, processed_files, signals, bundleIdx,
                   container_name_map, objIdx, targetIdx, runHist, everLooped, arcVars>>

\* processed_files is read from the progress file and the file is opened with
\* create(true).append(true); nothing of it without --incremental.
LoadProgress ==
    /\ pc = "LoadProgress"
    /\ \/ /\ incremental
          /\ processed_files' = LineSet(progressFile)
          /\ progressExists' = TRUE
          /\ Goto("Chdir")
          /\ UNCHANGED <<progressFile, fsFiles, fsDirs, dry_run, incremental, signals,
                         bundleIdx, container_name_map, objIdx, targetIdx, runHist, everLooped>>
       \/ /\ incremental                          \* open(..).unwrap() panics
          /\ EndRun("panic")
       \/ /\ ~incremental
          /\ Goto("Chdir")
          /\ UNCHANGED <<fsVars, procVars, runHist, everLooped>>

\* if chdir { set_current_dir(..).expect(..) }
Chdir ==
    /\ pc = "Chdir"
    /\ \/ /\ Goto("CompileTargets")
          /\ UNCHANGED <<fsVars, procVars, runHist, everLooped>>
       \/ /\ EndRun("panic")

\* Variant: the regexes are compiled when a rule is first applied, not before
\* the loop.
CompileTargets_Lazy ==
    \/ /\ pc = "CompileTargets"
       /\ Goto("InstallHandler")
       /\ UNCHANGED <<fsVars, procVars, runHist, everLooped>>
    \/ /\ pc = "Target"
       /\ targetIdx <= Len(ConfigTargets)
       /\ EndRun("regex")

\* targets_instantiated: every target's regex is compiled, in order; the
\* first that does not compile panics.  bad = 0: all compile.
CompileTargets ==
    /\ pc = "CompileTargets"
    /\ \E bad \in 0..Len(ConfigTargets) :
          IF bad = 0
          THEN /\ Goto("InstallHandler")
               /\ UNCHANGED <<fsVars, procVars, runHist, everLooped>>
          ELSE /\ EndRun("regex")

\* channel() and ctrlc::set_handler(..).expect(..); then glob(&config.src),
\* which panics on a bad pattern.
InstallHandler ==
    /\ pc = "InstallHandler"
    /\ \/ /\ Goto("LoopTop")
          /\ UNCHANGED <<fsVars, procVars, runHist, everLooped>>
       \/ /\ EndRun("panic")

\* The Ctrl-C handler: tx.send(()).
RaiseStop ==
    /\ HandlerInstalled
    /\ signals < MaxSignals
    /\ signals' = signals + 1
    /\ UNCHANGED <<fsVars, runNo, pc, exit, dry_run, incremental, processed_files,
                   bundleIdx, container_name_map, objIdx, targetIdx, runHist, everLooped,
                   lastFull, arcVars>>

\* The top of the per-archive loop: the iterator yields the next path, or
\* the loop ends; rx.try_recv() is polled and a waiting message breaks.
LoopTop ==
    /\ pc = "LoopTop"
    /\ IF bundleIdx > NumBundles
       THEN /\ Goto("Done")
            /\ UNCHANGED signals
       ELSE IF signals > 0
       THEN /\ signals' = signals - 1
            /\ Goto("Interrupted")
       ELSE /\ Goto("SkipCheck")
            /\ UNCHANGED signals
    /\ UNCHANGED <<fsVars, dry_run, incremental, processed_files,
                   bundleIdx, container_name_map, objIdx, targetIdx, runHist, everLooped>>

\* Variant: the membership test on the path as globbed, not normalized.
ShouldSkip_Raw(b) == BundlePath(b) \in processed_files

\* str_bundle_path and should_skip = processed_files.contains(..)
ShouldSkip(b) == StrBundlePath(b) \in processed_files

SkipCheck ==
    /\ pc = "SkipCheck"
    /\ IF ShouldSkip(bundleIdx)
       THEN NextBundle("Skipped")
       ELSE /\ phase' = [phase EXCEPT ![bundleIdx] = "Loading"]
            /\ Goto("Read")
            /\ UNCHANGED bundleIdx
    /\ printed' = {}
    /\ attempted' = {}
    /\ errlog' = {}
    /\ UNCHANGED <<fsVars, dry_run, incremental, processed_files,
                   signals, container_name_map, objIdx, targetIdx,
                   atStart, recAfterStop, everLooped>>

\* std::fs::read(&bundle_path): Err is reported and the loop continues.
ReadBundle ==
    /\ pc = "Read"
    /\ \/ FailBundle("read")
       \/ /\ Goto("Parse")
          /\ UNCHANGED <<phase, bundleIdx, errlog>>
    /\ UNCHANGED <<fsVars, dry_run, incremental, processed_files,
                   signals, container_name_map, objIdx, targetIdx,
                   printed, attempted, atStart, recAfterStop, everLooped>>

\* Variant: the load_from_slice error is reported, but the loop body goes on
\* to the container index instead of `continue`.
ParseBundle_GoesOn ==
    /\ pc = "Parse"
    /\ \/ /\ errlog' = errlog \cup {<<"parse", bundleIdx, 0, 0>>}
          /\ Goto("Collect")
          /\ UNCHANGED <<phase, bundleIdx>>
       \/ /\ Goto("Collect")
          /\ UNCHANGED <<phase, bundleIdx, errlog>>
    /\ UNCHANGED <<fsVars, dry_run, incremental, processed_files,
                   signals, container_name_map, objIdx, targetIdx,
                   printed, attempted, atStart, recAfterStop, everLooped>>

\* env.load_from_slice(&data): Err is reported and the loop continues.
ParseBundle ==
    /\ pc = "Parse"
    /\ \/ FailBundle("parse")
       \/ /\ Goto("Collect")
          /\ UNCHANGED <<phase, bundleIdx, errlog>>
    /\ UNCHANGED <<fsVars, dry_run, incremental, processed_files,
                   signals, container_name_map, objIdx, targetIdx,
                   printed, attempted, atStart, recAfterStop, everLooped>>

\* collect_asset_bundle_info(&env): Err (the AssetBundle object does not
\* decode) is reported and the loop continues; Ok is the container index.
CollectInfo ==
    /\ pc = "Collect"
    /\ \/ /\ FailBundle("info")
          /\ UNCHANGED <<container_name_map, objIdx>>
       \/ /\ container_name_map' = CollectAssetBundleInfo
          /\ phase' = [phase EXCEPT ![bundleIdx] = "Indexed"]
          /\ objIdx' = 1
          /\ Goto("Object")
          /\ UNCHANGED <<bundleIdx, errlog>>
    /\ UNCHANGED <<fsVars, dry_run, incremental, processed_files,
                   signals, targetIdx,
                   printed, attempted, atStart, recAfterStop, everLooped>>

\* One step of `for (index, obj) in env.objects().enumerate()`: the loop ends
\* (and the archive goes on to the progress append), or get_asset_metadata
\* classifies the next object.
Supported(k) == BundleObjects[k].class \in SupportedClasses

NextObject ==
    /\ pc = "Object"
    /\ \/ /\ objIdx > Len(BundleObjects)
          /\ everLooped' = everLooped \cup {bundleIdx}
          /\ IF incremental
             THEN /\ phase' = [phase EXCEPT ![bundleIdx] = "Recording"]
                  /\ Goto("WritePath")
                  /\ UNCHANGED bundleIdx
             ELSE NextBundle("Finished")
          /\ UNCHANGED <<objIdx, targetIdx, errlog>>
       \/ /\ objIdx <= Len(BundleObjects)
          /\ ~Supported(objIdx)                      \* Ok(Unsupported(_))
          /\ phase' = [phase EXCEPT ![bundleIdx] = "Processing"]
          /\ objIdx' = objIdx + 1
          /\ Goto("Object")
          /\ UNCHANGED <<bundleIdx, targetIdx, everLooped, errlog>>
       \/ /\ objIdx <= Len(BundleObjects)
          /\ Supported(objIdx)                       \* Err(e): obj.read() failed
          /\ phase' = [phase EXCEPT ![bundleIdx] = "Processing"]
          /\ errlog' = errlog \cup {<<"object", bundleIdx, objIdx, 0>>}
          /\ objIdx' = objIdx + 1
          /\ Goto("Object")
          /\ UNCHANGED <<bundleIdx, targetIdx, everLooped>>
       \/ /\ objIdx <= Len(BundleObjects)
          /\ Supported(objIdx)                       \* Ok(Supported(type, name))
          /\ phase' = [phase EXCEPT ![bundleIdx] = "Processing"]
          /\ targetIdx' = 1
          /\ Goto("Target")
          /\ UNCHANGED <<objIdx, bundleIdx, everLooped, errlog>>
    /\ UNCHANGED <<fsVars, dry_run, incremental, processed_files,
                   signals, container_name_map,
                   printed, attempted, atStart, recAfterStop>>

\* The rule applies to the object: its type is the object's and its regex
\* matches the rendered template.
Applies(b, k, t, map) ==
    /\ ConfigTargets[t].type = BundleObjects[k].class
    /\ IsMatch(ConfigTargets[t].match, Rendered(b, k, t, map))

\* One step of `for (target_type, ..) in &targets_instantiated`, up to the
\* println of the path and the dry_run test.
NextTarget ==
    /\ pc = "Target"
    /\ IF targetIdx > Len(ConfigTargets)
       THEN /\ objIdx' = objIdx + 1
            /\ Goto("Object")
            /\ UNCHANGED <<targetIdx, printed>>
       ELSE IF ~Applies(bundleIdx, objIdx, targetIdx, container_name_map)
       THEN /\ targetIdx' = targetIdx + 1
            /\ Goto("Target")
            /\ UNCHANGED <<objIdx, printed>>
       ELSE /\ printed' = printed \cup {<<bundleIdx, objIdx, targetIdx>>}
            /\ IF dry_run
               THEN /\ targetIdx' = targetIdx + 1
                    /\ Goto("Target")
                    /\ UNCHANGED objIdx
               ELSE /\ Goto("EnsureDir")
                    /\ UNCHANGED <<targetIdx, objIdx>>
    /\ UNCHANGED <<fsVars, dry_run, incremental, processed_files,
                   signals, bundleIdx, container_name_map,
                   phase, attempted, errlog, atStart, recAfterStop, everLooped>>

CurPath == OutPath(bundleIdx, objIdx, targetIdx, container_name_map)

\* Path::exists
Exists(p) == p \in fsDirs \/ p \in fsFiles \/ p = <<Slash>>

\* match path.parent(): None is reported; a parent that does not exist is
\* created with create_dir_all(parent)?, whose error ends main.
EnsureDir ==
    /\ pc = "EnsureDir"
    /\ \/ /\ ~HasParent(CurPath)
          /\ errlog' = errlog \cup {<<"parent", bundleIdx, objIdx, targetIdx>>}
          /\ Goto("Dump")
          /\ UNCHANGED <<fsVars, procVars, phase, printed, attempted, atStart,
                         recAfterStop, everLooped>>
       \/ /\ HasParent(CurPath)
          /\ Exists(Parent(CurPath))
          /\ Goto("Dump")
          /\ UNCHANGED <<fsVars, procVars, runHist, everLooped>>
       \/ /\ HasParent(CurPath)
          /\ ~Exists(Parent(CurPath))
          /\ fsDirs' = fsDirs \cup Ancestors(Parent(CurPath))
          /\ Goto("Dump")
          /\ UNCHANGED <<progressExists, progressFile, fsFiles, procVars, runHist, everLooped>>
       \/ /\ HasParent(CurPath)
          /\ ~Exists(Parent(CurPath))
          /\ Parent(CurPath) # <<>>
          /\ EndRun("error")

\* The directory a file can be created in.
IsDir(p) == p \in fsDirs \/ p \in {<<>>, <<Slash>>}

\* Variant: a dump_asset error is reported and the rest of the archive is
\* given up.
Dump_GivesUp ==
    /\ pc = "Dump"
    /\ attempted' = attempted \cup {<<bundleIdx, objIdx, targetIdx>>}
    /\ \/ /\ HasParent(CurPath)
          /\ IsDir(Parent(CurPath))
          /\ fsFiles' = fsFiles \cup {CurPath}
          /\ targetIdx' = targetIdx + 1
          /\ Goto("Target")
          /\ UNCHANGED <<errlog, phase, bundleIdx>>
       \/ /\ errlog' = errlog \cup {<<"dump", bundleIdx, objIdx, targetIdx>>}
          /\ NextBundle("Failed")
          /\ UNCHANGED <<fsFiles, targetIdx>>
    /\ UNCHANGED <<progressExists, progressFile, fsDirs, dry_run,
                   incremental, processed_files, signals, container_name_map, objIdx,
                   printed, atStart, recAfterStop, everLooped>>

\* dump_asset(str_path, &obj): the object is decoded and written, or the
\* error is reported.
Dump ==
    /\ pc = "Dump"
    /\ attempted' = attempted \cup {<<bundleIdx, objIdx, targetIdx>>}
    /\ \/ /\ HasParent(CurPath)
          /\ IsDir(Parent(CurPath))
          /\ fsFiles' = fsFiles \cup {CurPath}
          /\ UNCHANGED errlog
       \/ /\ errlog' = errlog \cup {<<"dump", bundleIdx, objIdx, targetIdx>>}
          /\ UNCHANGED fsFiles
    /\ targetIdx' = targetIdx + 1
    /\ Goto("Target")
    /\ UNCHANGED <<progressExists, progressFile, fsDirs, dry_run,
                   incremental, processed_files, signals, bundleIdx, container_name_map, objIdx,
                   phase, printed, atStart, recAfterStop, everLooped>>

\* writeln!(file, "{}", str_bundle_path)?: std::fs::File is unbuffered and
\* write_fmt hands it the argument and the "\n" of the format string in two
\* writes.  This is the first.
WritePath ==
    /\ pc = "WritePath"
    /\ \/ /\ progressFile' = progressFile \o StrBundlePath(bundleIdx)
          /\ recAfterStop' = recAfterStop + (IF signals > 0 THEN 1 ELSE 0)
          /\ Goto("WriteNewline")
          /\ UNCHANGED <<progressExists, fsFiles, fsDirs, procVars,
                         phase, printed, attempted, errlog, atStart, everLooped>>
       \/ /\ EndRun("error")

\* The second write of writeln!, then file.flush()? (nothing to do for a File).
WriteNewline ==
    /\ pc = "WriteNewline"
    /\ \/ /\ progressFile' = Append(progressFile, Newline)
          /\ NextBundle("Recorded")
          /\ UNCHANGED <<progressExists, fsFiles, fsDirs, dry_run, incremental,
                         processed_files, signals, container_name_map, objIdx, targetIdx,
                         printed, attempted, errlog, atStart, recAfterStop, everLooped>>
       \/ /\ EndRun("error")

\* println!("Done"); Ok(())
Finish ==
    /\ pc \in {"Done", "Interrupted"}
    /\ EndRun(IF pc = "Done" THEN "done" ELSE "interrupted")

\* The process is killed (or the machine stops) wherever it is.
Crash ==
    /\ Running
    /\ EndRun("crash")

Next ==
    \/ ReadConfig
    \/ LoadProgress
    \/ Chdir
    \/ CompileTargets
    \/ InstallHandler
    \/ RaiseStop
    \/ LoopTop
    \/ SkipCheck
    \/ ReadBundle
    \/ ParseBundle
    \/ CollectInfo
    \/ NextObject
    \/ NextTarget
    \/ EnsureDir
    \/ Dump
    \/ WritePath
    \/ WriteNewline
    \/ Finish
    \/ Crash

Spec == Init /\ [][Next]_vars

\* ------------------------------------------- one archive: extract, inspect
\* ArcSpec walks one archive drawn from Archives the way the Extract arm does
\* (index build, item loop, rule loop, with --dry) and then the way the
\* Inspect arm does.
ArcInit ==
    /\ DriverInit
    /\ arc \in Archives
    /\ checked \in BOOLEAN
    /\ apc = "Collect"
    /\ panics = {}
    /\ logged = {}
    /\ paths = <<>>
    /\ only_supported = FALSE
    /\ inspect_map = <<>>
    /\ report = <<>>

\* What a walk of the archive leaves alone.
ArcFrame ==
    UNCHANGED <<fsVars, runNo, pc, exit, dry_run, incremental, processed_files, signals,
                bundleIdx, runHist, everLooped, lastFull, arc, checked>>

\* preload_index + preload_size of some container overflows in a binary that
\* checks: the process panics.
BuildPanics ==
    /\ checked
    /\ \E c \in arc.container : Overflows(c.preload_index, c.preload_size)

\* Extract: collect_asset_bundle_info(&env).  The HashMap m_Container is
\* iterated in some order.
ExtractCollect ==
    /\ apc = "Collect"
    /\ \/ /\ BuildPanics
          /\ panics' = panics \cup {"extract"}
          /\ apc' = "InspectArgs"
          /\ UNCHANGED <<container_name_map, logged, objIdx>>
       \/ /\ ~BuildPanics
          /\ \E order \in Orders(arc.container) :
                /\ container_name_map' = CollectContainers(<<>>, order, arc.preload_table)
                /\ logged' = LoggedIndices(order, arc.preload_table)
          /\ objIdx' = 1
          /\ apc' = "Object"
          /\ UNCHANGED panics
    /\ UNCHANGED <<targetIdx, paths, only_supported, inspect_map, report>>
    /\ ArcFrame

ArcSupported(k) == arc.objects[k].class \in SupportedClasses

\* Extract: one step of the loop over env.objects().enumerate().
ExtractObject ==
    /\ apc = "Object"
    /\ \/ /\ objIdx > Len(arc.objects)
          /\ apc' = "InspectArgs"
          /\ UNCHANGED <<objIdx, targetIdx>>
       \/ /\ objIdx <= Len(arc.objects)
          /\ ~ArcSupported(objIdx)                     \* Ok(Unsupported(_))
          /\ objIdx' = objIdx + 1
          /\ UNCHANGED <<apc, targetIdx>>
       \/ /\ objIdx <= Len(arc.objects)
          /\ ArcSupported(objIdx)
          /\ ~arc.objects[objIdx].readable             \* Err(e)
          /\ objIdx' = objIdx + 1
          /\ UNCHANGED <<apc, targetIdx>>
       \/ /\ objIdx <= Len(arc.objects)
          /\ ArcSupported(objIdx)
          /\ arc.objects[objIdx].readable              \* Ok(Supported(type, name))
          /\ targetIdx' = 1
          /\ apc' = "Target"
          /\ UNCHANGED objIdx
    /\ UNCHANGED <<panics, container_name_map, logged, paths, only_supported, inspect_map, report>>
    /\ ArcFrame

ArcRendered(k, t, map) ==
    Render(ArcTargets[t].template,
           PlaceholdersOf(arc.objects[k], k, map, StrBundlePath(1)))

ArcApplies(k, t, map) ==
    /\ ArcTargets[t].type = arc.objects[k].class
    /\ IsMatch(ArcTargets[t].match, ArcRendered(k, t, map))

ArcOutPath(k, t, map) ==
    PathJoin(ConfigDest,
             Replace(ArcTargets[t].match, ArcRendered(k, t, map), ArcTargets[t].dest))

\* The line extract prints for object k under rule t.
Printed(k, t, map) ==
    [k |-> k, t |-> t,
     index |-> PlaceholdersOf(arc.objects[k], k, map, StrBundlePath(1)).index,
     path |-> ArcOutPath(k, t, map)]

\* Variant: the first rule that applies to an item ends the rule loop.
ExtractTarget_FirstMatch ==
    /\ apc = "Target"
    /\ IF targetIdx > Len(ArcTargets)
       THEN /\ objIdx' = objIdx + 1
            /\ apc' = "Object"
            /\ UNCHANGED <<targetIdx, paths>>
       ELSE IF ~ArcApplies(objIdx, targetIdx, container_name_map)
       THEN /\ targetIdx' = targetIdx + 1
            /\ UNCHANGED <<apc, objIdx, paths>>
       ELSE /\ paths' = Append(paths, Printed(objIdx, targetIdx, container_name_map))
            /\ objIdx' = objIdx + 1
            /\ apc' = "Object"
            /\ UNCHANGED targetIdx
    /\ UNCHANGED <<panics, container_name_map, logged, only_supported, inspect_map, report>>
    /\ ArcFrame

\* Extract: one step of the loop over targets_instantiated, with --dry.
ExtractTarget ==
    /\ apc = "Target"
    /\ IF targetIdx > Len(ArcTargets)
       THEN /\ objIdx' = objIdx + 1
            /\ apc' = "Object"
            /\ UNCHANGED <<targetIdx, paths>>
       ELSE IF ~ArcApplies(objIdx, targetIdx, container_name_map)
       THEN /\ targetIdx' = targetIdx + 1
            /\ UNCHANGED <<apc, objIdx, paths>>
       ELSE /\ paths' = Append(paths, Printed(objIdx, targetIdx, container_name_map))
            /\ targetIdx' = targetIdx + 1
            /\ UNCHANGED <<apc, objIdx>>
    /\ UNCHANGED <<panics, container_name_map, logged, only_supported, inspect_map, report>>
    /\ ArcFrame

\* Inspect: Args::parse_from, the --only-supported switch.
InspectArgs ==
    /\ apc = "InspectArgs"
    /\ only_supported' \in BOOLEAN
    /\ apc' = "InspectCollect"
    /\ UNCHANGED <<panics, container_name_map, logged, objIdx, targetIdx, paths, inspect_map, report>>
    /\ ArcFrame

\* Inspect: collect_asset_bundle_info(&env), a build of its own.
InspectCollect ==
    /\ apc = "InspectCollect"
    /\ \/ /\ BuildPanics
          /\ panics' = panics \cup {"inspect"}
          /\ apc' = "End"
          /\ UNCHANGED <<inspect_map, objIdx>>
       \/ /\ ~BuildPanics
          /\ \E order \in Orders(arc.container) :
                inspect_map' = CollectContainers(<<>>, order, arc.preload_table)
          /\ objIdx' = 1
          /\ apc' = "InspectObject"
          /\ UNCHANGED panics
    /\ UNCHANGED <<container_name_map, logged, targetIdx, paths, only_supported, report>>
    /\ ArcFrame

\* The lines inspect prints for object k: "#index: type", name, container.
Reported(k, index) ==
    [k |-> k, index |-> IndexToString(index),
     container |-> ContainerOf(inspect_map, arc.objects[k].path_id)]

\* Variant: the ordinal counts the items printed so far.
InspectObject_Renumbers ==
    /\ apc = "InspectObject"
    /\ \/ /\ objIdx > Len(arc.objects)
          /\ apc' = "End"
          /\ UNCHANGED <<objIdx, report>>
       \/ /\ objIdx <= Len(arc.objects)
          /\ \/ ArcSupported(objIdx) /\ ~arc.objects[objIdx].readable
             \/ ~ArcSupported(objIdx) /\ only_supported
          /\ objIdx' = objIdx + 1
          /\ UNCHANGED <<apc, report>>
       \/ /\ objIdx <= Len(arc.objects)
          /\ ArcSupported(objIdx) => arc.objects[objIdx].readable
          /\ ArcSupported(objIdx) \/ ~only_supported
          /\ report' = Append(report, Reported(objIdx, Len(report)))
          /\ objIdx' = objIdx + 1
          /\ UNCHANGED apc
    /\ UNCHANGED <<panics, container_name_map, logged, targetIdx, paths, only_supported, inspect_map>>
    /\ ArcFrame

\* Inspect: one step of the loop over env.objects().enumerate(): the loop ends,
\* the item is passed over (Err, or unsupported under --only-supported), or
\* it is printed under its enumeration index.
InspectObject ==
    /\ apc = "InspectObject"
    /\ \/ /\ objIdx > Len(arc.objects)
          /\ apc' = "End"
          /\ UNCHANGED <<objIdx, report>>
       \/ /\ objIdx <= Len(arc.objects)
          /\ \/ ArcSupported(objIdx) /\ ~arc.objects[objIdx].readable
             \/ ~ArcSupported(objIdx) /\ only_supported
          /\ objIdx' = objIdx + 1
          /\ UNCHANGED <<apc, report>>
       \/ /\ objIdx <= Len(arc.objects)
          /\ ArcSupported(objIdx) => arc.objects[objIdx].readable
          /\ ArcSupported(objIdx) \/ ~only_supported
          /\ report' = Append(report, Reported(objIdx, objIdx - 1))
          /\ objIdx' = objIdx + 1
          /\ UNCHANGED apc
    /\ UNCHANGED <<panics, container_name_map, logged, targetIdx, paths, only_supported, inspect_map>>
    /\ ArcFrame

ArcNext ==
    \/ ExtractCollect
    \/ ExtractObject
    \/ ExtractTarget
    \/ InspectArgs
    \/ InspectCollect
    \/ InspectObject

ArcSpec == ArcInit /\ [][ArcNext]_vars

\* ---------------------------------------------------- what the claims read
\* processed_files of a run that would start now holds the path of bundle b.
InFile(b) == StrBundlePath(b) \in LineSet(progressFile)

\* What the running process has appended to the progress file so far.
Appended == SubSeq(progressFile, Len(atStart.content) + 1, Len(progressFile))

AppendedInRun(b) == BundleNames[b] \in Range(Appended)

\* An earlier run wrote the path of bundle b to the progress file.
AppendedEarlier(b) == BundleNames[b] \in Range(atStart.content)

\* The path of bundle b was a line of the progress file when the run started.
LineAtStart(b) == StrBundlePath(b) \in LineSet(atStart.content)

NoOutputFor(b) == \A e \in printed \cup attempted : e[1] # b

LoadFailed(b) == \E w \in {"read", "parse", "info"} : <<w, b, 0, 0>> \in errlog

IsPrefix(s, t) == Len(s) <= Len(t) /\ SubSeq(t, 1, Len(s)) = s

FsUntouched ==
    /\ progressExists = atStart.exists
    /\ progressFile = atStart.content
    /\ fsFiles = atStart.files
    /\ fsDirs = atStart.dirs

\* printed, attempted and errlog are those of bundle b: the loop body was last
\* entered for it.
LastEntered(b) ==
    \/ bundleIdx = b /\ pc # "SkipCheck"
    \/ bundleIdx = b + 1 /\ pc \in {"LoopTop", "SkipCheck", "Done", "Interrupted"}

\* Every rule that applies to every item of bundle b that decoded has had its
\* path printed and, unless --dry, dump_asset called.
Complete(b) ==
    \A k \in DOMAIN BundleObjects :
        Supported(k) =>
            \/ <<"object", b, k, 0>> \in errlog
            \/ \A t \in DOMAIN ConfigTargets :
                   Applies(b, k, t, CollectAssetBundleInfo) =>
                       /\ <<b, k, t>> \in printed
                       /\ dry_run \/ <<b, k, t>> \in attempted

\* ------------------------------------------------------------------ claims
\* C1: the progress file holds an archive's path only if the archive was read,
\* parsed, indexed and its item loop ran to the end; in an incremental run an
\* archive is never recorded while Loading, Indexed or Processing, nor after
\* it ended in Failed -- in every reachable state, crashes and stop requests
\* included.
C1_RecordedOnlyAfterItemLoop ==
    LET recorded == LineSet(progressFile)
        appended == Range(Appended)
    IN  \A b \in Bundles :
            /\ StrBundlePath(b) \in recorded => b \in everLooped
            /\ BundleNames[b] \in appended =>
                   /\ b \in everLooped
                   /\ incremental
                   /\ phase[b] \in {"Recording", "Recorded"}
            /\ (Running /\ incremental
                  /\ phase[b] \in {"Loading", "Indexed", "Processing", "Failed"}) =>
                   /\ StrBundlePath(b) \notin recorded
                   /\ BundleNames[b] \notin appended

\* An incremental run has recorded one archive and given up another.
C1_Witness ==
    /\ Running /\ incremental
    /\ \E b, c \in Bundles :
          /\ phase[b] = "Failed" /\ ~InFile(b)
          /\ phase[c] = "Recorded" /\ InFile(c) /\ AppendedInRun(c)

\* C2: over incremental runs that may be interrupted or crash anywhere, an
\* archive whose path an earlier run appended is never read or extracted again
\* (it is skipped and nothing is appended for it), and a run that reaches the
\* end of the loop has every archive recorded that did not fail to load.
C2_ResumeSkipsAndCompletes ==
    (Running /\ incremental) =>
        /\ \A b \in Bundles :
               AppendedEarlier(b) =>
                   phase[b] \in {"Pending", "Skipped"} /\ ~AppendedInRun(b)
        /\ pc = "Done" => \A b \in Bundles : phase[b] # "Failed" => InFile(b)

\* C3, as the specification states it: the run after a complete incremental
\* run reports every archive as skipped and produces no new output.
C3_SecondRunSkipsEverything ==
    (Running /\ incremental /\ lastFull) =>
        /\ \A b \in Bundles : phase[b] \in {"Pending", "Skipped"}
        /\ fsFiles = atStart.files
        /\ fsDirs = atStart.dirs

\* C3, amended: an incremental run skips exactly the archives whose normalized
\* path is a line of the progress file when it starts; for those it prints
\* nothing, extracts nothing and appends nothing, and when they are all the
\* archives there are the run leaves the file system as it found it.
C3_SecondRunSkipsRecorded ==
    (Running /\ incremental) =>
        LET atstart == LineSet(atStart.content)
        IN  /\ \A b \in Bundles :
                   /\ StrBundlePath(b) \in atstart =>
                          /\ phase[b] \in {"Pending", "Skipped"}
                          /\ NoOutputFor(b)
                          /\ ~AppendedInRun(b)
                   /\ StrBundlePath(b) \notin atstart => phase[b] # "Skipped"
            /\ (\A b \in Bundles : StrBundlePath(b) \in atstart) =>
                   /\ progressFile = atStart.content
                   /\ fsFiles = atStart.files
                   /\ fsDirs = atStart.dirs
                   /\ printed = {} /\ attempted = {}

\* The second of two complete incremental runs has skipped every archive, and
\* the first left output behind.
C3_Witness ==
    /\ runNo = 2 /\ lastFull /\ incremental /\ ~dry_run
    /\ pc = "Done"
    /\ \A b \in Bundles : phase[b] = "Skipped" /\ LineAtStart(b)
    /\ fsFiles # {}

\* The loop body is at work on an archive.
InArchive ==
    pc \in {"SkipCheck", "Read", "Parse", "Collect", "Object", "Target",
            "EnsureDir", "Dump", "WritePath", "WriteNewline"}

\* Every archive before the iterator's position is settled, none after it has
\* been touched.
Settled ==
    \A b \in Bundles :
        IF b < bundleIdx
        THEN phase[b] \in {"Skipped", "Failed", IF incremental THEN "Recorded" ELSE "Finished"}
        ELSE phase[b] = "Pending"

\* A stop request is polled at the top of the loop only; one that waits while
\* an archive is worked on changes nothing of that work; once seen, nothing
\* more is read, extracted or recorded; at most one append begins while a
\* request waits; the content of the progress file is never cut.
C4_StopStep ==
    /\ (signals' < signals /\ pc' # "Idle") => (pc = "LoopTop" /\ pc' = "Interrupted")
    /\ (pc' = "Interrupted" /\ pc # "Interrupted") =>
           /\ pc = "LoopTop" /\ signals > 0
           /\ Settled
           /\ UNCHANGED <<fsVars, phase, printed, attempted, bundleIdx>>
    /\ pc = "Interrupted" =>
           /\ pc' \in {"Interrupted", "Idle"}
           /\ pc' = "Idle" => exit' \in {"interrupted", "crash"}
           /\ pc' = "Interrupted" => UNCHANGED <<phase, printed, attempted, bundleIdx>>
           /\ UNCHANGED fsVars
    /\ (InArchive /\ signals > 0 /\ pc' = "Idle") => exit' \in {"crash", "error"}
    /\ recAfterStop' <= 1
    /\ IsPrefix(progressFile, progressFile')

\* C4: a stop request is acted on only at the top of the per-archive loop: the
\* archive in progress is finished and (if incremental) recorded, then nothing
\* more is read, extracted or recorded, so at most one archive is recorded
\* after the request was raised, and every archive recorded before the request
\* stays recorded.
C4_StopAtLoopTopKeepsRecorded ==
    [][/\ C4_StopStep
       /\ \A b \in Bundles :
              (signals > 0 /\ InFile(b)) => StrBundlePath(b) \in LineSet(progressFile')]_vars

\* C5: with --dry, whatever the other options, the run creates or modifies no
\* file or directory.
C5_DryRunTouchesNothing == (Running /\ dry_run) => FsUntouched

\* C6: a parent directory that cannot be determined or cannot be created is a
\* per-item failure: no extraction is attempted for the item, the run goes on
\* with the next rule and does not abort.
C6_ParentFailureIsPerItem ==
    [][(pc = "EnsureDir" /\ pc' # pc) =>
           /\ exit' # "error"
           /\ ~HasParent(CurPath) => pc' # "Dump"]_vars

\* A step that reports a load failure of bundle b.
C7_Step ==
    \A b \in Bundles :
        (<<b, 0, 0>> \in {<<e[2], e[3], e[4]>> : e \in errlog' \ errlog}) =>
            /\ b = bundleIdx
            /\ pc \in {"Read", "Parse", "Collect"}
            /\ pc' = "LoopTop"
            /\ bundleIdx' = b + 1
            /\ phase'[b] = "Failed"
            /\ exit' = exit
            /\ UNCHANGED <<fsVars, printed, attempted>>

\* C7: an archive that cannot be read, does not parse, or whose manifest index
\* does not decode is reported, gets no output and no progress entry, and the
\* loop goes on with the next path; the run does not end because of it.
C7_LoadFailureSkipsArchive ==
    /\ [][C7_Step]_vars
    /\ [](\A b \in Bundles :
              /\ LoadFailed(b) => phase[b] = "Failed" /\ bundleIdx = b + 1
              /\ phase[b] = "Failed" => NoOutputFor(b) /\ ~AppendedInRun(b) /\ Running)

\* A later archive was recorded after an earlier one failed to load.
C7_Witness ==
    \E b, c \in Bundles :
        /\ b < c
        /\ phase[b] = "Failed"
        /\ phase[c] = "Recorded" /\ AppendedInRun(c)

\* A step that reports an item failure: the loop over objects, or over rules,
\* goes on with the next one.
C8_Step ==
    /\ \A k \in DOMAIN BundleObjects :
           (<<"object", bundleIdx, k, 0>> \in errlog' \ errlog) =>
               /\ pc = "Object" /\ k = objIdx
               /\ pc' = "Object" /\ objIdx' = k + 1
               /\ bundleIdx' = bundleIdx /\ exit' = exit
    /\ \A k \in DOMAIN BundleObjects, t \in DOMAIN ConfigTargets :
           (<<"dump", bundleIdx, k, t>> \in errlog' \ errlog) =>
               /\ pc = "Dump" /\ k = objIdx /\ t = targetIdx
               /\ pc' = "Target" /\ targetIdx' = t + 1 /\ objIdx' = k
               /\ bundleIdx' = bundleIdx /\ exit' = exit

\* C8: an item that fails to decode, or to be dumped, is logged; every later
\* rule and item of the archive is still processed, and the archive reaches
\* the progress append (if incremental) with all of them done.
C8_ItemFailureKeepsArchive ==
    /\ [][C8_Step]_vars
    /\ [](\A b \in Bundles :
              /\ phase[b] \in {"Recording", "Recorded", "Finished"} =>
                     /\ phase[b] = "Finished" <=> ~incremental
                     /\ LastEntered(b) => Complete(b)
              /\ phase[b] = "Recorded" => AppendedInRun(b))

\* An archive was recorded although its text item failed to be dumped and its
\* sprite item failed too; the sprite's rule was still tried.
C8_Witness ==
    \E b \in Bundles :
        /\ phase[b] = "Recorded" /\ InFile(b)
        /\ <<"dump", b, 2, 1>> \in errlog
        /\ <<b, 3, 3>> \in attempted

\* C9: a target whose regex does not compile ends the run before any archive
\* is read, any output path produced, or anything appended to the progress
\* file, wherever the target stands in the list.
C9_BadRegexAbortsBeforeLoop ==
    [][(exit' = "regex" /\ exit # "regex") =>
           /\ pc = "CompileTargets" /\ pc' = "Idle"
           /\ \A b \in Bundles : phase[b] = "Pending"
           /\ printed = {} /\ attempted = {}
           /\ progressFile = atStart.content
           /\ fsFiles = atStart.files /\ fsDirs = atStart.dirs
           /\ UNCHANGED fsVars]_vars

\* A run over a progress file that already has entries ended on a bad regex.
C9_Witness ==
    /\ exit = "regex"
    /\ runNo = 2
    /\ progressFile # <<>>
    /\ fsFiles # {}

\* C10: the sequence of lines of the progress file only ever grows at its end.
C10_LinesOnlyAppended ==
    [][IsPrefix(Lines(progressFile), Lines(progressFile'))]_vars

\* How often `line` is a line of the text.
CountLine(text, line) ==
    LET ls == Lines(text)
    IN  Cardinality({i \in DOMAIN ls : ls[i] = line})

\* No archive path is a line of the progress file twice.
AtMostOnce == \A b \in Bundles : CountLine(progressFile, StrBundlePath(b)) <= 1

\* C11: after any incremental runs each archive path is in the progress file
\* at most once, and exactly once when a run has taken the archive through
\* its item loop and the progress append.
C11_RecordedExactlyOnce ==
    /\ AtMostOnce
    /\ \A b \in Bundles :
           (Running /\ incremental /\ phase[b] = "Recorded") =>
               CountLine(progressFile, StrBundlePath(b)) = 1

\* C15: an archive path is appended only by a run that performed the
\* archive's extraction; a run with --dry and --incremental appends nothing.
C15_OnlyExtractingRunsAppend ==
    \A b \in Bundles : AppendedInRun(b) => ~dry_run

\* ------------------------------------------------- claims about one archive
\* Extract's, and Inspect's, container index has been built.
ExtractBuilt == apc \notin {"Off", "Collect"} /\ "extract" \notin panics

InspectBuilt == apc \in {"InspectObject", "End"} /\ "inspect" \notin panics

\* The indices of [preload_index, preload_index + preload_size), the sum taken
\* in the integers, that a u64 can hold.
ClaimedRange(c) ==
    {j \in 0..(Modulus - 1) :
        c.preload_index <= j /\ j < c.preload_index + c.preload_size}

\* The containers whose range holds a preload-table entry with this path_id.
Claiming(path_id) ==
    {c \in arc.container :
        \E j \in ClaimedRange(c) :
            j + 1 \in DOMAIN arc.preload_table /\ arc.preload_table[j + 1] = path_id}

\* C12: an item resolves to a container name exactly when its path_id is that
\* of a preload-table entry inside the half-open range of some container (the
\* name is that of such a container), and to the empty string otherwise; so
\* for "c1" with [0,2) over [p0, p1, p2], p0 and p1 resolve to "c1", p2 to "".
C12_ResolvesByPreloadRange ==
    ExtractBuilt =>
        \A k \in DOMAIN arc.objects :
            LET path_id == arc.objects[k].path_id
                name == ContainerOf(container_name_map, path_id)
            IN  IF Claiming(path_id) = {}
                THEN name = <<>>
                ELSE name \in {c.name : c \in Claiming(path_id)}

\* The (item, rule) pairs the rule loop has dealt with so far.
Dealt(k, t) ==
    CASE apc = "Collect" -> FALSE
      [] apc = "Object"  -> k < objIdx
      [] apc = "Target"  -> k < objIdx \/ (k = objIdx /\ t < targetIdx)
      [] OTHER           -> "extract" \notin panics

\* C13: the paths produced for an item are exactly one per rule of the item's
\* type whose pattern matches the rendered template, in rule order; a rule of
\* another type or that does not match produces nothing and holds up no other
\* rule and no other item.
C13_OnePathPerApplicableRule ==
    /\ {<<paths[i].k, paths[i].t>> : i \in DOMAIN paths} =
           {e \in (DOMAIN arc.objects) \X (DOMAIN ArcTargets) :
               /\ Dealt(e[1], e[2])
               /\ ArcSupported(e[1]) /\ arc.objects[e[1]].readable
               /\ ArcTargets[e[2]].type = arc.objects[e[1]].class
               /\ IsMatch(ArcTargets[e[2]].match, ArcRendered(e[1], e[2], container_name_map))}
    /\ \A i, j \in DOMAIN paths :
           i < j => \/ paths[i].k < paths[j].k
                    \/ paths[i].k = paths[j].k /\ paths[i].t < paths[j].t
    /\ \A i \in DOMAIN paths :
           paths[i].path = ArcOutPath(paths[i].k, paths[i].t, container_name_map)

\* One text item got two paths; for another the c1 rule did not match and the
\* by-index rule after it still produced its path; a sprite got one.
C13_Witness ==
    /\ apc = "End"
    /\ \E i, j \in DOMAIN paths :
          paths[i].k = paths[j].k /\ paths[i].t = 1 /\ paths[j].t = 3
    /\ \E k \in DOMAIN arc.objects :
          /\ \E i \in DOMAIN paths : paths[i].k = k /\ paths[i].t = 4
          /\ ~\E i \in DOMAIN paths : paths[i].k = k /\ paths[i].t = 3

\* C14: the index placeholder of an item is its zero-based position among all
\* objects of the archive, unsupported and undecodable ones counted, and it is
\* the ordinal inspect prints for the item, with or without --only-supported.
C14_IndexIsEnumerationPosition ==
    /\ \A i \in DOMAIN paths :
           /\ paths[i].index = IndexToString(paths[i].k - 1)
           /\ paths[i].t = 4 =>
                  paths[i].path = ConfigDest \o <<Slash, "by-index", Slash>> \o paths[i].index
    /\ \A j \in DOMAIN report : report[j].index = IndexToString(report[j].k - 1)
    /\ \A i \in DOMAIN paths, j \in DOMAIN report :
           paths[i].k = report[j].k => paths[i].index = report[j].index
    /\ (apc = "End" /\ "inspect" \notin panics) =>
           {report[j].k : j \in DOMAIN report} =
               {k \in DOMAIN arc.objects :
                   IF ArcSupported(k) THEN arc.objects[k].readable ELSE ~only_supported}

\* With --only-supported, an item that follows an undecodable and an
\* unsupported one was given index 2 by extract and printed as #2 by inspect.
C14_Witness ==
    /\ apc = "End" /\ only_supported
    /\ ~arc.objects[1].readable /\ ~ArcSupported(2)
    /\ \E i \in DOMAIN paths : paths[i].k = 3 /\ paths[i].index = <<"2">>
    /\ \E j \in DOMAIN report : report[j].k = 3 /\ report[j].index = <<"2">>
    /\ Len(report) = 1

\* C16: two builds of the container index of one archive resolve every item
\* to the same container name.
C16_ResolutionIsDeterministic ==
    (ExtractBuilt /\ InspectBuilt) =>
        \A k \in DOMAIN arc.objects :
            ContainerOf(container_name_map, arc.objects[k].path_id) =
                ContainerOf(inspect_map, arc.objects[k].path_id)

\* The path climbs above the directory it starts in.
RECURSIVE Climbs(_, _)
Climbs(rest, depth) ==
    IF rest = <<>> THEN FALSE
    ELSE IF Head(rest) = ".." THEN (depth = 0 \/ Climbs(Tail(rest), depth - 1))
    ELSE IF Head(rest) \in {Slash, "."} THEN Climbs(Tail(rest), depth)
    ELSE Climbs(Tail(rest), depth + 1)

UnderRoot(path) ==
    /\ IsPrefix(ConfigDest \o <<Slash>>, path)
    /\ ~Climbs(SubSeq(path, Len(ConfigDest) + 1, Len(path)), 0)

\* C17: every output path lies under the destination root.
C17_PathsStayUnderRoot == \A i \in DOMAIN paths : UnderRoot(paths[i].path)

\* C18: for any u64 preload_index and preload_size the index build is not
\* fatal, every claimed index outside the preload table is logged, and every
\* one inside it is mapped, also when preload_index + preload_size overflows.
C18_IndexBuildSurvivesAnyRange ==
    /\ panics = {}
    /\ ExtractBuilt =>
           \A c \in arc.container : \A j \in ClaimedRange(c) :
               IF j + 1 \in DOMAIN arc.preload_table
               THEN arc.preload_table[j + 1] \in DOMAIN container_name_map
               ELSE j \in logged

=============================================================================
